---- MODULE Spec2Model ----
(***************************************************************************)
(* BoredMonitor: the store-backed server (src/src/backend/server.ts,       *)
(* lines 1-244).  Several replicas each hold a cache (currentState) of the *)
(* singleton record of the store; handlers suspend at the store call of    *)
(* updateState and resume when the driver's promise settles.  The record   *)
(* is written by findOneAndUpdate only; every applied write is echoed to   *)
(* every replica by the change stream.                                     *)
(***************************************************************************)
EXTENDS Integers, Sequences, FiniteSets, TLC

VARIABLES
    store,      \* the persisted record { level, lastUpdateTime, boredomSpikes }
    cache,      \* currentState of every replica
    feed,       \* change-stream events on their way to every replica
    hs,         \* the request handlers (one record per concurrent request)
    now,        \* Date.now(), epoch milliseconds relative to the boot instant
    nreq,       \* number of requests accepted so far
    expSpikes,  \* history: spikes expected from the writes the store applied
    lastSet,    \* history: level of the set write, if the last applied write is one
    fresh,      \* history: per replica, newLevel of a set answered just now
    pin,        \* input of a computation checked on its own; history: the last accepted set
    pout,       \* its output
    mem,        \* `state` of the in-memory server (server.ts, lines 246-330)
    mresp,      \* the last response of the in-memory server
    boot,       \* where every replica is in initializeDatabase
    ui          \* the dashboard: its history buffer and the samples that arrived

vars == <<store, cache, feed, hs, now, nreq, expSpikes, lastSet, fresh, pin, pout,
          mem, mresp, boot, ui>>

-----------------------------------------------------------------------------
(* Bounds *)
MaxTicks == 2
MaxReqs == 2
MaxFeed == 1
MaxElapsedTicks == 8

(* Program constants *)
DecayIntervalMs == 3600000
MinLevel == 0
MaxLevel == 100

TickMs == DecayIntervalMs \div 2
Replicas == {"r1", "r2"}
Handlers == {"h1", "h2"}
Null == [null |-> TRUE]
\* no level
None == 0 - 1

\* Request bodies of POST /api/boredom/set: the level field is either not a
\* number at all or a number, given in halves (3 is 1.5, 201 is 100.5).
Number(halves) == [isNumber |-> TRUE, halves |-> halves]
NotANumber == [isNumber |-> FALSE, halves |-> 0]
SetInputs == {NotANumber} \cup {Number(n) : n \in {3, 201}}

\* Records a replica can find in the store when it boots.
InitStates == {[level |-> 0, boredomSpikes |-> 0], [level |-> 5, boredomSpikes |-> 3]}

-----------------------------------------------------------------------------
(* Pure helpers *)

Max(a, b) == IF a >= b THEN a ELSE b

\* (variant) Math.round in place of Math.floor
DecayAmountRounded(timeElapsed) ==
    (timeElapsed + DecayIntervalMs \div 2) \div DecayIntervalMs

\* Math.floor(timeElapsed / 3600000); \div rounds towards minus infinity
DecayAmount(timeElapsed) == timeElapsed \div DecayIntervalMs

\* (variant) the level is not clamped at 0
DecayedLevelNoClamp(level, decayAmount) == level - decayAmount

\* Math.max(0, state.level - decayAmount)
DecayedLevel(level, decayAmount) == Max(0, level - decayAmount)

\* Math.round of a number given in halves: floor(x + 0.5)
Round(level) == (level.halves + 1) \div 2

\* (variant) the upper limit is not checked
InvalidNoUpper(level) ==
    \/ ~level.isNumber
    \/ level.halves < 2 * MinLevel

\* typeof level !== 'number' || level < 0 || level > 100
Invalid(level) ==
    \/ ~level.isNumber
    \/ level.halves < 2 * MinLevel
    \/ level.halves > 2 * MaxLevel

\* getState(): a copy of the cache without _id
getState(r) == cache[r]

-----------------------------------------------------------------------------
(* Writes: the atomicUpdate object built by updateState *)

NoWrite == [op |-> "none", set |-> <<>>, inc |-> 0]

\* (variant) the decay write carries the spike counter too
DecayWriteWithSpikes(newLevel, t) ==
    [op |-> "decay",
     set |-> [level |-> newLevel, boredomSpikes |-> 0, lastUpdateTime |-> t], inc |-> 0]

\* applyDecay: updateState({ level: newLevel, lastUpdateTime: now })
DecayWrite(newLevel, t) ==
    [op |-> "decay", set |-> [level |-> newLevel, lastUpdateTime |-> t], inc |-> 0]

\* (variant) the spike increment is left out
SetWriteNoInc(newLevel, t) ==
    [op |-> "set", set |-> [level |-> newLevel, lastUpdateTime |-> t], inc |-> 0]

\* POST set: updateState({ level: newLevel, lastUpdateTime: Date.now() }, { incSpikes: 1 })
SetWrite(newLevel, t) ==
    [op |-> "set", set |-> [level |-> newLevel, lastUpdateTime |-> t], inc |-> 1]

\* (variant) the spikes are not cleared
ResetWriteKeepSpikes(t) ==
    [op |-> "reset", set |-> [level |-> 0, lastUpdateTime |-> t], inc |-> 0]

\* POST reset: updateState({ level: 0, boredomSpikes: 0, lastUpdateTime: Date.now() })
ResetWrite(t) ==
    [op |-> "reset", set |-> [level |-> 0, boredomSpikes |-> 0, lastUpdateTime |-> t], inc |-> 0]

\* (variant) $inc is left out of an update that has a $set
ApplyUpdateSetOnly(doc, w) ==
    [level          |-> IF "level" \in DOMAIN w.set THEN w.set.level ELSE doc.level,
     lastUpdateTime |-> IF "lastUpdateTime" \in DOMAIN w.set THEN w.set.lastUpdateTime
                        ELSE doc.lastUpdateTime,
     boredomSpikes  |-> IF "boredomSpikes" \in DOMAIN w.set THEN w.set.boredomSpikes
                        ELSE IF DOMAIN w.set = {} THEN doc.boredomSpikes + w.inc
                        ELSE doc.boredomSpikes]

\* findOneAndUpdate({ _id }, { $set, $inc }, { returnDocument: 'after' }) on a document
Field(doc, w, f) == IF f \in DOMAIN w.set THEN w.set[f] ELSE doc[f]
ApplyUpdate(doc, w) ==
    [level          |-> Field(doc, w, "level"),
     lastUpdateTime |-> Field(doc, w, "lastUpdateTime"),
     boredomSpikes  |-> Field(doc, w, "boredomSpikes") + w.inc]

-----------------------------------------------------------------------------
(* The cache: currentState is overwritten from the value a write returns   *)
(* and from the documents of the change stream.                            *)

STATE_ID == "current_boredom_state"

\* a change of the singleton, with fullDocument: 'updateLookup'
Event(doc) == [full |-> TRUE, id |-> STATE_ID, doc |-> doc]

\* !!change.fullDocument
hasFullDocument(change) == change.full

\* (variant) the _id of the document is not compared
onChangeAnyId(c, change) ==
    IF ~hasFullDocument(change) THEN c ELSE change.doc

\* changeStream.on('change', ...): the new value of currentState
onChange(c, change) ==
    IF ~hasFullDocument(change) THEN c
    ELSE IF change.id # STATE_ID THEN c
    ELSE change.doc

\* (variant) the replica also counts the spike of its own write
refreshCounting(c, value) ==
    IF value = Null THEN c
    ELSE [value EXCEPT !.boredomSpikes = c.boredomSpikes + 1]

\* updateState: if (result.value) currentState = { ...result.value }
refresh(c, value) == IF value = Null THEN c ELSE value

-----------------------------------------------------------------------------
(* Handlers *)

Idle ==
    [pc |-> "idle", kind |-> "none", rep |-> "r1", body |-> NotANumber,
     rd |-> Null, t0 |-> 0, req |-> NoWrite, stage |-> "none", result |-> Null,
     status |-> 0, out |-> Null, applied |-> 0, incd |-> 0, failed |-> FALSE, lost |-> FALSE,
     conc |-> FALSE, afterSet |-> None]

\* the clock of the model counts the milliseconds since the startTime of the
\* GET handler, 2025-10-13 11:00:00 Europe/Amsterdam
startTime == 0

MsPerSecond == 1000

\* Math.floor((Date.now() - startTime) / 1000)
timeAlone(t) == (t - startTime) \div MsPerSecond

\* Math.floor((Date.now() - state.lastUpdateTime) / 1000)
timeSinceUpdate(state, t) == (t - state.lastUpdateTime) \div MsPerSecond

\* { ...state, timeAlone, serverTime: Date.now() }
Body(state, alone, t) ==
    [level |-> state.level, lastUpdateTime |-> state.lastUpdateTime,
     boredomSpikes |-> state.boredomSpikes, timeAlone |-> alone, serverTime |-> t]

\* GET /api/boredom after `await applyDecay()`: res.json({ ...getState(), ... })
GetRespond(h, c, t) ==
    IF c = Null
    THEN [h EXCEPT !.pc = "done", !.status = 500, !.req = NoWrite, !.stage = "none"]
    ELSE [h EXCEPT !.pc = "done", !.status = 200, !.out = Body(c, timeAlone(t), t),
                   !.req = NoWrite, !.stage = "none"]

\* POST /api/boredom/set after `await applyDecay()`: validation, then the write
SetValidate(h, t) ==
    IF Invalid(h.body)
    THEN [h EXCEPT !.pc = "done", !.status = 400, !.out = [success |-> FALSE],
                   !.req = NoWrite, !.stage = "none"]
    ELSE [h EXCEPT !.pc = "updateState", !.req = SetWrite(Round(h.body), t),
                   !.stage = "sent"]

\* what follows `await applyDecay()` in the handler
AfterDecay(h, c, t) ==
    IF h.kind = "get" THEN GetRespond(h, c, t) ELSE SetValidate(h, t)

\* what follows `await updateState(...)` in the set and reset handlers
AfterUpdate(h) ==
    [h EXCEPT !.pc = "done", !.status = 200, !.req = NoWrite, !.stage = "none",
              !.out = [success |-> TRUE,
                       newLevel |-> IF h.kind = "set" THEN Round(h.body) ELSE 0]]

\* the handler resumes once the promise of findOneAndUpdate has settled
Resume(h, c, t) ==
    IF h.pc = "applyDecay" THEN AfterDecay(h, c, t) ELSE AfterUpdate(h)

\* applyDecay() up to its await, for a handler that has just been entered
applyDecay(h, t) ==
    LET state == getState(h.rep)
        timeElapsed == t - state.lastUpdateTime
        decayAmount == DecayAmount(timeElapsed)
        h1 == [h EXCEPT !.rd = state, !.t0 = t]
    IN  IF decayAmount > 0
        THEN [h1 EXCEPT !.pc = "applyDecay", !.stage = "sent",
                        !.req = DecayWrite(DecayedLevel(state.level, decayAmount), t)]
        ELSE AfterDecay(h1, state, t)

SetPending(h) == hs[h].req.op = "set" /\ hs[h].stage # "none"

\* a set write has been issued while the set write of another request is pending
MarkConc(h, new) ==
    IF new.req.op = "set" /\ \E g \in Handlers \ {h} : SetPending(g)
    THEN [g \in Handlers |->
            IF g = h THEN [new EXCEPT !.conc = TRUE]
            ELSE IF SetPending(g) THEN [hs[g] EXCEPT !.conc = TRUE] ELSE hs[g]]
    ELSE [hs EXCEPT ![h] = new]

\* a response is taken off the handler before anything else happens
Responding == \E h \in Handlers : hs[h].pc = "done"

\* a new request takes the first free handler slot
Free(h) == ~Responding /\ hs[h].pc = "idle" /\ (h = "h2" => hs["h1"].pc # "idle")

\* the replicas are alike until the first request has been made
Routed(r) == nreq = 0 => r = "r1"

NoFresh == [r \in Replicas |-> None]

\* a set has just been answered with success on replica r, and the clock
\* has not advanced since the request was made
Answered(h, new) ==
    IF new.pc = "done" /\ new.kind = "set" /\ new.status = 200 /\ new.t0 = now
    THEN [NoFresh EXCEPT ![new.rep] = new.out.newLevel]
    ELSE NoFresh

-----------------------------------------------------------------------------
(* Actions *)

Init ==
    /\ now = 0
    /\ \E s \in InitStates :
          store = [level |-> s.level, lastUpdateTime |-> 0,
                   boredomSpikes |-> s.boredomSpikes]
    /\ cache = [r \in Replicas |-> store]
    /\ feed = [r \in Replicas |-> <<>>]
    /\ hs = [h \in Handlers |-> Idle]
    /\ nreq = 0
    /\ expSpikes = store.boredomSpikes
    /\ lastSet = None
    /\ fresh = NoFresh
    /\ pin = Null
    /\ pout = Null
    /\ mem = Null
    /\ mresp = Null
    /\ boot = [r \in Replicas |-> "ready"]
    /\ ui = Null

\* the clock advances
Tick ==
    /\ ~Responding
    /\ now < MaxTicks * TickMs
    /\ now' = now + TickMs
    /\ fresh' = NoFresh
    /\ UNCHANGED <<store, cache, feed, hs, nreq, expSpikes, lastSet, pin, pout, mem, mresp, boot, ui>>

Enter(h, kind, r, body) ==
    [Idle EXCEPT !.kind = kind, !.rep = r, !.body = body, !.afterSet = fresh[r]]

\* app.get('/api/boredom')
GetRequest(h, r) ==
    /\ Free(h)
    /\ Routed(r)
    /\ nreq < MaxReqs
    /\ nreq' = nreq + 1
    /\ hs' = [hs EXCEPT ![h] =
                IF cache[r] = Null THEN GetRespond(Enter(h, "get", r, NotANumber), Null, now)
                ELSE applyDecay(Enter(h, "get", r, NotANumber), now)]
    /\ fresh' = NoFresh
    /\ UNCHANGED <<store, cache, feed, now, expSpikes, lastSet, pin, pout, mem, mresp, boot, ui>>

\* app.post('/api/boredom/set')
SetRequest(h, r, body) ==
    /\ Free(h)
    /\ Routed(r)
    /\ nreq < MaxReqs
    /\ nreq' = nreq + 1
    /\ LET new == IF cache[r] = Null
                  THEN [Enter(h, "set", r, body) EXCEPT !.pc = "done", !.status = 500]
                  ELSE applyDecay(Enter(h, "set", r, body), now)
       IN  hs' = MarkConc(h, [new EXCEPT !.afterSet = None])
    /\ fresh' = NoFresh
    /\ UNCHANGED <<store, cache, feed, now, expSpikes, lastSet, pin, pout, mem, mresp, boot, ui>>

\* app.post('/api/boredom/reset')
ResetRequest(h, r) ==
    /\ Free(h)
    /\ Routed(r)
    /\ nreq < MaxReqs
    /\ nreq' = nreq + 1
    /\ LET e == [Enter(h, "reset", r, NotANumber) EXCEPT !.afterSet = None, !.t0 = now]
       IN  hs' = [hs EXCEPT ![h] =
                    IF cache[r] = Null THEN AfterUpdate(e)
                    ELSE [e EXCEPT !.pc = "updateState", !.stage = "sent",
                                   !.req = ResetWrite(now)]]
    /\ fresh' = NoFresh
    /\ UNCHANGED <<store, cache, feed, now, expSpikes, lastSet, pin, pout, mem, mresp, boot, ui>>

\* the store applies the findOneAndUpdate of a handler, atomically, and
\* publishes the updated document on the change stream of every replica
StoreApply(h) ==
    /\ ~Responding
    /\ hs[h].stage = "sent"
    /\ \A r \in Replicas : Len(feed[r]) < MaxFeed
    /\ LET w == hs[h].req
           doc == ApplyUpdate(store, w)
       IN  /\ store' = doc
           /\ feed' = [r \in Replicas |-> Append(feed[r], Event(doc))]
           /\ hs' = [hs EXCEPT ![h].stage = "applied", ![h].result = doc,
                               ![h].applied = @ + 1, ![h].incd = @ + w.inc]
           /\ expSpikes' = CASE w.op = "set" -> expSpikes + 1
                             [] w.op = "reset" -> 0
                             [] OTHER -> expSpikes
           /\ lastSet' = IF w.op = "set" THEN w.set.level ELSE None
    /\ fresh' = NoFresh
    /\ UNCHANGED <<cache, now, nreq, pin, pout, mem, mresp, boot, ui>>

\* the promise of findOneAndUpdate resolves: the cache takes result.value
\* and the handler runs on to its next await or to its response
WriteResolve(h) ==
    /\ ~Responding
    /\ hs[h].stage = "applied"
    /\ LET r == hs[h].rep
           c == refresh(cache[r], hs[h].result)
           new == Resume(hs[h], c, now)
       IN  /\ cache' = [cache EXCEPT ![r] = c]
           /\ hs' = MarkConc(h, new)
           /\ fresh' = Answered(h, new)
    /\ UNCHANGED <<store, feed, now, nreq, expSpikes, lastSet, pin, pout, mem, mresp, boot, ui>>

\* (variant) the cache is updated with the values of the write before the
\* outcome is known, and a rejection does not take them back
WriteRejectOptimistic(h) ==
    /\ ~Responding
    /\ hs[h].stage \in {"sent", "applied"}
    /\ LET r == hs[h].rep
           c == ApplyUpdate(cache[r], hs[h].req)
           m == [hs[h] EXCEPT !.failed = (@ \/ hs[h].pc = "updateState"),
                              !.lost = (@ \/ hs[h].pc = "applyDecay")]
           new == Resume(m, c, now)
       IN  /\ cache' = [cache EXCEPT ![r] = c]
           /\ hs' = MarkConc(h, new)
           /\ fresh' = Answered(h, new)
    /\ UNCHANGED <<store, feed, now, nreq, expSpikes, lastSet, pin, pout, mem, mresp, boot, ui>>

\* the promise rejects (connection lost before the write, or the reply
\* timed out after it): updateState logs the error and returns
WriteReject(h) ==
    /\ ~Responding
    /\ hs[h].stage \in {"sent", "applied"}
    /\ LET r == hs[h].rep
           m == [hs[h] EXCEPT !.failed = (@ \/ hs[h].pc = "updateState"),
                              !.lost = (@ \/ hs[h].pc = "applyDecay")]
           new == Resume(m, cache[r], now)
       IN  /\ hs' = MarkConc(h, new)
           /\ fresh' = Answered(h, new)
    /\ UNCHANGED <<store, cache, feed, now, nreq, expSpikes, lastSet, pin, pout, mem, mresp, boot, ui>>

\* changeStream.on('change'): the cache takes change.fullDocument
ChangeEvent(r) ==
    /\ ~Responding
    /\ feed[r] # <<>>
    /\ cache' = [cache EXCEPT ![r] = onChange(cache[r], Head(feed[r]))]
    /\ feed' = [feed EXCEPT ![r] = Tail(feed[r])]
    /\ fresh' = NoFresh
    /\ UNCHANGED <<store, hs, now, nreq, expSpikes, lastSet, pin, pout, mem, mresp, boot, ui>>

\* the response has been sent; the slot is free for the next request
Finish(h) ==
    /\ hs[h].pc = "done"
    /\ hs' = [hs EXCEPT ![h] = Idle]
    /\ UNCHANGED <<store, cache, feed, now, nreq, expSpikes, lastSet, fresh, pin, pout, mem, mresp, boot, ui>>

Next ==
    \/ Tick
    \/ \E h \in Handlers, r \in Replicas : GetRequest(h, r)
    \/ \E h \in Handlers, r \in Replicas, b \in SetInputs : SetRequest(h, r, b)
    \/ \E h \in Handlers, r \in Replicas : ResetRequest(h, r)
    \/ \E h \in Handlers : StoreApply(h)
    \/ \E h \in Handlers : WriteResolve(h)
    \/ \E h \in Handlers : WriteReject(h)
    \/ \E r \in Replicas : ChangeEvent(r)
    \/ \E h \in Handlers : Finish(h)

Spec == Init /\ [][Next]_vars

-----------------------------------------------------------------------------
(* The decay computation of applyDecay on its own: every level, a range of *)
(* elapsed times.                                                          *)

Remainders == {0, 1, TickMs - 1}
\* elapsed times; the negative ones are those of a clock behind lastUpdateTime
Elapsed == {k * TickMs + m : k \in (0 - 2)..MaxElapsedTicks, m \in Remainders}
DecayInputs ==
    [level : MinLevel..MaxLevel, lastUpdateTime : {0, TickMs}, elapsed : Elapsed]

\* (variant) the state is written whenever decayAmount is not 0
computeDecayNonZero(state, t) ==
    LET timeElapsed == t - state.lastUpdateTime
        decayAmount == DecayAmount(timeElapsed)
    IN  [decayAmount |-> decayAmount,
         dirty |-> decayAmount # 0,
         level |-> IF decayAmount # 0 THEN DecayedLevel(state.level, decayAmount)
                   ELSE state.level,
         lastUpdateTime |-> IF decayAmount # 0 THEN t ELSE state.lastUpdateTime]

\* (variant) the state is written only when the level changes
computeDecayIfChanged(state, t) ==
    LET timeElapsed == t - state.lastUpdateTime
        decayAmount == DecayAmount(timeElapsed)
        newLevel == IF decayAmount > 0 THEN DecayedLevel(state.level, decayAmount)
                    ELSE state.level
    IN  [decayAmount |-> decayAmount,
         dirty |-> newLevel # state.level,
         level |-> newLevel,
         lastUpdateTime |-> IF newLevel # state.level THEN t ELSE state.lastUpdateTime]

\* lines 135-145 of applyDecay, for a state and a clock reading: what is
\* written (dirty) and the level and lastUpdateTime after it
computeDecay(state, t) ==
    LET timeElapsed == t - state.lastUpdateTime
        decayAmount == DecayAmount(timeElapsed)
    IN  [decayAmount |-> decayAmount,
         dirty |-> decayAmount > 0,
         level |-> IF decayAmount > 0 THEN DecayedLevel(state.level, decayAmount)
                   ELSE state.level,
         lastUpdateTime |-> IF decayAmount > 0 THEN t ELSE state.lastUpdateTime]

Quiet ==
    /\ now = 0
    /\ store = [level |-> 0, lastUpdateTime |-> 0, boredomSpikes |-> 0]
    /\ cache = [r \in Replicas |-> store]
    /\ feed = [r \in Replicas |-> <<>>]
    /\ hs = [h \in Handlers |-> Idle]
    /\ nreq = 0
    /\ expSpikes = 0
    /\ lastSet = None
    /\ fresh = NoFresh

DecayInit ==
    /\ Quiet
    /\ pin \in DecayInputs
    /\ pout = Null
    /\ mem = Null
    /\ mresp = Null
    /\ boot = [r \in Replicas |-> "ready"]
    /\ ui = Null

DecayCompute ==
    /\ pout = Null
    /\ pout' = computeDecay(pin, pin.lastUpdateTime + pin.elapsed)
    /\ UNCHANGED <<store, cache, feed, hs, now, nreq, expSpikes, lastSet, fresh, pin, mem, mresp, boot, ui>>

DecayNext == DecayCompute

DecaySpec == DecayInit /\ [][DecayNext]_vars

-----------------------------------------------------------------------------
(* The change stream handler on its own: a replica receives a sequence of *)
(* change events of the collection, among them events without a full      *)
(* document and events of documents with another _id.                     *)

MaxEvents == 2

FeedDocs ==
    {[level |-> 4, lastUpdateTime |-> TickMs, boredomSpikes |-> 4],
     [level |-> 0, lastUpdateTime |-> 2 * TickMs, boredomSpikes |-> 0]}

\* a change without fullDocument (a delete, or a lookup that found nothing)
NoFullDocument == [full |-> FALSE, id |-> STATE_ID, doc |-> Null]

\* a change of another document of the collection
OtherDocument(doc) == [full |-> TRUE, id |-> "other_state", doc |-> doc]

FeedEvents ==
    {NoFullDocument} \cup {Event(d) : d \in FeedDocs} \cup {OtherDocument(d) : d \in FeedDocs}

FeedSeqs == UNION {[1..k -> FeedEvents] : k \in 0..MaxEvents}

FeedInit ==
    /\ now = 0
    /\ store \in {[level |-> s.level, lastUpdateTime |-> 0, boredomSpikes |-> s.boredomSpikes] :
                    s \in InitStates}
    /\ cache = [r \in Replicas |-> store]
    /\ feed \in [Replicas -> FeedSeqs]
    /\ hs = [h \in Handlers |-> Idle]
    /\ nreq = 0
    /\ expSpikes = store.boredomSpikes
    /\ lastSet = None
    /\ fresh = NoFresh
    /\ pin = feed
    /\ pout = Null
    /\ mem = Null
    /\ mresp = Null
    /\ boot = [r \in Replicas |-> "ready"]
    /\ ui = Null

FeedNext == \E r \in Replicas : ChangeEvent(r)

FeedSpec == FeedInit /\ [][FeedNext]_vars

-----------------------------------------------------------------------------
(* The in-memory servers: `state` is a variable of the process and every   *)
(* handler runs to its response without an await.  The two differ in the   *)
(* timeAlone of GET: part_000 counts from startTime, the server appended   *)
(* to server.ts counts from state.lastUpdateTime.                          *)

MaxMemTicks == 4
MaxMemReqs == 3

MemVariants == {"part_000", "appended"}

\* the clock readings at which the process is started
MemBoots == {0, 1500}

\* applyDecay of the in-memory servers
memApplyDecay(state, t) ==
    LET d == computeDecay(state, t)
    IN  IF d.dirty THEN [state EXCEPT !.level = d.level, !.lastUpdateTime = t]
        ELSE state

MemInit ==
    /\ now \in MemBoots
    /\ store = [level |-> 0, lastUpdateTime |-> 0, boredomSpikes |-> 0]
    /\ cache = [r \in Replicas |-> store]
    /\ feed = [r \in Replicas |-> <<>>]
    /\ hs = [h \in Handlers |-> Idle]
    /\ nreq = 0
    /\ expSpikes = 0
    /\ lastSet = None
    /\ fresh = NoFresh
    /\ pin = Null
    /\ pout = Null
    /\ mem \in [variant : MemVariants,
                 state : {[level |-> 0, lastUpdateTime |-> now, boredomSpikes |-> 0]}]
    /\ mresp = Null
    /\ boot = [r \in Replicas |-> "ready"]
    /\ ui = Null

\* the clock advances between two requests
MemTick ==
    /\ now < MaxMemTicks * TickMs
    /\ now' = now + TickMs
    /\ UNCHANGED <<store, cache, feed, hs, nreq, expSpikes, lastSet, fresh, pin, pout, mem, mresp, boot, ui>>

MemRespond(kind, status, body) == [kind |-> kind, status |-> status, at |-> now, body |-> body]

\* GET /api/boredom of the in-memory servers: the state after it and the response
memGet ==
    LET state == memApplyDecay(mem.state, now)
        alone == IF mem.variant = "part_000" THEN timeAlone(now)
                 ELSE timeSinceUpdate(state, now)
    IN  [state |-> state, res |-> MemRespond("get", 200, Body(state, alone, now))]

\* POST /api/boredom/set of the in-memory servers
memSet(level) ==
    LET state == memApplyDecay(mem.state, now)
    IN  IF Invalid(level)
        THEN [state |-> state, res |-> MemRespond("set", 400, [success |-> FALSE])]
        ELSE [state |-> [level |-> Round(level),
                         boredomSpikes |-> state.boredomSpikes + 1,
                         lastUpdateTime |-> now],
              res |-> MemRespond("set", 200, [success |-> TRUE, newLevel |-> Round(level)])]

\* POST /api/boredom/reset of the in-memory servers
memReset ==
    [state |-> [level |-> 0, boredomSpikes |-> 0, lastUpdateTime |-> now],
     res |-> MemRespond("reset", 200, [success |-> TRUE, newLevel |-> 0])]

\* the in-memory server serves a request
MemServe(served) ==
    /\ nreq < MaxMemReqs
    /\ nreq' = nreq + 1
    /\ mem' = [mem EXCEPT !.state = served.state]
    /\ mresp' = served.res

MemGet ==
    /\ MemServe(memGet)
    /\ UNCHANGED <<store, cache, feed, hs, now, expSpikes, lastSet, fresh, pin, pout, boot, ui>>

MemSet(level) ==
    /\ MemServe(memSet(level))
    /\ pin' = IF Invalid(level) THEN pin ELSE [v |-> Round(level), t0 |-> now]
    /\ UNCHANGED <<store, cache, feed, hs, now, expSpikes, lastSet, fresh, pout, boot, ui>>

MemReset ==
    /\ MemServe(memReset)
    /\ pin' = Null
    /\ UNCHANGED <<store, cache, feed, hs, now, expSpikes, lastSet, fresh, pout, boot, ui>>

\* the credentials the process is configured with (the defaults)
VALID_USER == "admin"
VALID_PASS == "password"

\* a field of the request body: absent, or a string
Absent == [present |-> FALSE, text |-> ""]
Text(str) == [present |-> TRUE, text |-> str]
Fields == {Absent} \cup {Text(str) : str \in {"", "admin", "password"}}

\* !field : undefined and the empty string are falsy
Not(field) == ~field.present \/ field.text = ""

\* (variant) the password is not compared
authCheckUserOnly(username, password) ==
    IF Not(username) \/ Not(password)
    THEN [status |-> 400, body |-> [authenticated |-> FALSE]]
    ELSE IF username.text = VALID_USER
    THEN [status |-> 200, body |-> [authenticated |-> TRUE]]
    ELSE [status |-> 401, body |-> [authenticated |-> FALSE]]

\* POST /api/auth/check
authCheck(username, password) ==
    IF Not(username) \/ Not(password)
    THEN [status |-> 400, body |-> [authenticated |-> FALSE]]
    ELSE IF username.text = VALID_USER /\ password.text = VALID_PASS
    THEN [status |-> 200, body |-> [authenticated |-> TRUE]]
    ELSE [status |-> 401, body |-> [authenticated |-> FALSE]]

MemAuth(username, password) ==
    /\ LET res == authCheck(username, password)
       IN  mresp' = [kind |-> "auth", status |-> res.status, at |-> now, body |-> res.body,
                     username |-> username, password |-> password]
    /\ UNCHANGED <<store, cache, feed, hs, now, nreq, expSpikes, lastSet, fresh, pin, pout, mem, boot, ui>>

MemNext ==
    \/ MemTick
    \/ MemGet
    \/ \E level \in SetInputs : MemSet(level)
    \/ MemReset
    \/ \E username \in Fields, password \in Fields : MemAuth(username, password)

MemSpec == MemInit /\ [][MemNext]_vars

-----------------------------------------------------------------------------
(* Boot: initializeDatabase of each replica against a store that may or    *)
(* may not hold the record, while the replicas that are up serve sets.     *)

\* (variant) the default state is written whether or not a record exists
insertOneReplace(doc, new) == new

\* collection.insertOne(currentState): a second document with the same _id
\* is refused (duplicate key) and the collection stays as it is
insertOne(doc, new) == IF doc = Null THEN new ELSE doc

\* { _id: STATE_ID, level: 0, lastUpdateTime: Date.now(), boredomSpikes: 0 }
DefaultState(t) == [level |-> 0, lastUpdateTime |-> t, boredomSpikes |-> 0]

BootInit ==
    /\ now = 0
    /\ store \in {Null} \cup
                 {[level |-> s.level, lastUpdateTime |-> 0, boredomSpikes |-> s.boredomSpikes] :
                    s \in InitStates}
    /\ cache = [r \in Replicas |-> Null]
    /\ feed = [r \in Replicas |-> <<>>]
    /\ hs = [h \in Handlers |-> Idle]
    /\ nreq = 0
    /\ expSpikes = 0
    /\ lastSet = None
    /\ fresh = NoFresh
    /\ pin = Null
    /\ pout = Null
    /\ mem = Null
    /\ mresp = Null
    /\ boot = [r \in Replicas |-> "start"]
    /\ ui = Null

BootTick ==
    /\ now < MaxTicks * TickMs
    /\ now' = now + TickMs
    /\ UNCHANGED <<store, cache, feed, hs, nreq, expSpikes, lastSet, fresh, pin, pout, mem, mresp, boot, ui>>

\* findOne({ _id: STATE_ID }) has returned: the cache takes the record, or
\* the default state that is about to be inserted
BootFind(r) ==
    /\ boot[r] = "start"
    /\ IF store = Null
       THEN /\ cache' = [cache EXCEPT ![r] = DefaultState(now)]
            /\ boot' = [boot EXCEPT ![r] = "insert"]
       ELSE /\ cache' = [cache EXCEPT ![r] = store]
            /\ boot' = [boot EXCEPT ![r] = "ready"]
    /\ UNCHANGED <<store, feed, hs, now, nreq, expSpikes, lastSet, fresh, pin, pout, mem, mresp, ui>>

\* insertOne has settled: the replica is up, or the insert was refused and
\* the catch of initializeDatabase ends the process
BootInsert(r) ==
    /\ boot[r] = "insert"
    /\ store' = insertOne(store, cache[r])
    /\ boot' = [boot EXCEPT ![r] = IF store = Null THEN "ready" ELSE "exited"]
    /\ UNCHANGED <<cache, feed, hs, now, nreq, expSpikes, lastSet, fresh, pin, pout, mem, mresp, ui>>

\* (variant) app.listen is called without waiting for initializeDatabase
ListeningFromStart(r) == boot[r] \in {"start", "insert", "ready"}

\* startServer: app.listen is called once `await initializeDatabase()` returns
Listening(r) == boot[r] = "ready"

\* a request reaches a handler, which calls getState: it throws 'State not
\* initialized yet' (answer 500) when currentState is null
BootGet(r) ==
    /\ Listening(r)
    /\ mresp' = IF cache[r] = Null
                THEN [kind |-> "served", rep |-> r, status |-> 500, body |-> Null]
                ELSE [kind |-> "served", rep |-> r, status |-> 200, body |-> getState(r)]
    /\ mresp' # mresp
    /\ UNCHANGED <<store, cache, feed, hs, now, nreq, expSpikes, lastSet, fresh, pin, pout, mem, boot, ui>>

\* a replica that is up serves a set
BootSet(r, level) ==
    /\ Listening(r)
    /\ cache[r] # Null
    /\ store # Null
    /\ ~Invalid(level)
    /\ nreq < MaxReqs
    /\ nreq' = nreq + 1
    /\ store' = ApplyUpdate(store, SetWrite(Round(level), now))
    /\ cache' = [cache EXCEPT ![r] = store']
    /\ UNCHANGED <<feed, hs, now, expSpikes, lastSet, fresh, pin, pout, mem, mresp, boot, ui>>

BootNext ==
    \/ BootTick
    \/ \E r \in Replicas : BootFind(r)
    \/ \E r \in Replicas : BootInsert(r)
    \/ \E r \in Replicas : BootGet(r)
    \/ \E r \in Replicas, level \in SetInputs : BootSet(r, level)

BootSpec == BootInit /\ [][BootNext]_vars

-----------------------------------------------------------------------------
(* The store-backed server, one replica, next to the in-memory server of   *)
(* part_000: both serve the same requests at the same clock readings, one  *)
(* request at a time and without store failures.  The events of the        *)
(* change stream reach the replica in order, at any later time.            *)

\* the replica of the store-backed server
Single == "r1"

\* updateState without failure: the update is applied, its event published
\* and the cache refreshed from the value returned
RefWrite(st, w) ==
    LET doc == ApplyUpdate(st.store, w)
    IN  [store |-> doc, cache |-> refresh(st.cache, doc), feed |-> Append(st.feed, Event(doc))]

\* await applyDecay() of the store-backed server
RefDecay(st, t) ==
    LET d == computeDecay(st.cache, t)
    IN  IF d.dirty THEN RefWrite(st, DecayWrite(d.level, t)) ELSE st

RefState == [store |-> store, cache |-> cache[Single], feed |-> feed[Single]]

\* the store-backed server after a request, and its response
RefDone(st, res) ==
    /\ store' = st.store
    /\ cache' = [cache EXCEPT ![Single] = st.cache]
    /\ feed' = [feed EXCEPT ![Single] = st.feed]
    /\ pout' = res

RefInit ==
    /\ now = 0
    /\ store = DefaultState(now)
    /\ cache = [r \in Replicas |-> store]
    /\ feed = [r \in Replicas |-> <<>>]
    /\ hs = [h \in Handlers |-> Idle]
    /\ nreq = 0
    /\ expSpikes = 0
    /\ lastSet = None
    /\ fresh = NoFresh
    /\ pin = Null
    /\ pout = Null
    /\ mem = [variant |-> "part_000", state |-> DefaultState(now)]
    /\ mresp = Null
    /\ boot = [r \in Replicas |-> "ready"]
    /\ ui = Null

\* a request is taken when at most MaxFeed events are waiting
RefReady == Len(feed[Single]) <= MaxFeed

RefGet ==
    /\ RefReady
    /\ LET st == RefDecay(RefState, now)
       IN  RefDone(st, [kind |-> "get", status |-> 200, at |-> now,
                        body |-> Body(st.cache, timeAlone(now), now)])
    /\ MemServe(memGet)
    /\ UNCHANGED <<hs, now, expSpikes, lastSet, fresh, pin, boot, ui>>

RefSet(level) ==
    /\ RefReady
    /\ LET st == RefDecay(RefState, now)
       IN  IF Invalid(level)
           THEN RefDone(st, [kind |-> "set", status |-> 400, at |-> now,
                             body |-> [success |-> FALSE]])
           ELSE RefDone(RefWrite(st, SetWrite(Round(level), now)),
                        [kind |-> "set", status |-> 200, at |-> now,
                         body |-> [success |-> TRUE, newLevel |-> Round(level)]])
    /\ MemServe(memSet(level))
    /\ UNCHANGED <<hs, now, expSpikes, lastSet, fresh, pin, boot, ui>>

RefReset ==
    /\ RefReady
    /\ RefDone(RefWrite(RefState, ResetWrite(now)),
               [kind |-> "reset", status |-> 200, at |-> now,
                body |-> [success |-> TRUE, newLevel |-> 0]])
    /\ MemServe(memReset)
    /\ UNCHANGED <<hs, now, expSpikes, lastSet, fresh, pin, boot, ui>>

RefNext ==
    \/ MemTick
    \/ RefGet
    \/ \E level \in SetInputs : RefSet(level)
    \/ RefReset
    \/ ChangeEvent(Single)

RefSpec == RefInit /\ [][RefNext]_vars

-----------------------------------------------------------------------------
(* The dashboard (part_001): fetchBoredom keeps the samples it has fetched *)
(* in historicalDataRef.current; handleReset empties it.                   *)

HistoryLimit == 50
MaxSamples == 52
MaxFailedPolls == 1
MaxClears == 1

\* (variant) the oldest sample is never dropped
pushNoShift(historicalData, newMetric) == Append(historicalData, newMetric)

\* historicalDataRef.current.push(newMetric); if (length > 50) shift()
push(historicalData, newMetric) ==
    LET pushed == Append(historicalData, newMetric)
    IN  IF Len(pushed) > HistoryLimit THEN Tail(pushed) ELSE pushed

HistInit ==
    /\ Quiet
    /\ pin = Null
    /\ pout = Null
    /\ mem = Null
    /\ mresp = Null
    /\ boot = [r \in Replicas |-> "ready"]
    /\ ui = [historicalData |-> <<>>, arrived |-> <<>>, samples |-> 0, failed |-> 0, clears |-> 0]

\* a poll whose response has arrived and parsed: the sample is the number of
\* the arrival (its place in the order of the timestamps)
FetchArrives ==
    /\ ui.samples < MaxSamples
    /\ LET newMetric == ui.samples + 1
       IN  ui' = [ui EXCEPT !.historicalData = push(@, newMetric),
                            !.arrived = Append(@, newMetric),
                            !.samples = newMetric]
    /\ UNCHANGED <<store, cache, feed, hs, now, nreq, expSpikes, lastSet, fresh, pin, pout,
                   mem, mresp, boot>>

\* a poll whose fetch or res.json() throws: the catch logs the error
FetchFails ==
    /\ ui.failed < MaxFailedPolls
    /\ ui' = [ui EXCEPT !.failed = @ + 1]
    /\ UNCHANGED <<store, cache, feed, hs, now, nreq, expSpikes, lastSet, fresh, pin, pout,
                   mem, mresp, boot>>

\* handleReset: historicalDataRef.current = []
handleReset ==
    /\ ui.clears < MaxClears
    /\ ui' = [ui EXCEPT !.historicalData = <<>>, !.arrived = <<>>, !.clears = @ + 1]
    /\ UNCHANGED <<store, cache, feed, hs, now, nreq, expSpikes, lastSet, fresh, pin, pout,
                   mem, mresp, boot>>

HistNext == FetchArrives \/ FetchFails \/ handleReset

HistSpec == HistInit /\ [][HistNext]_vars

-----------------------------------------------------------------------------
(* formatTimeAlone of the dashboard (part_001) on its own.                 *)

SecondsPerDay == 86400
SecondsPerHour == 3600
SecondsPerMinute == 60
MaxFmtDays == 10

\* whole numbers of seconds around every boundary of the breakdown
FmtInputs ==
    {sign * (d * SecondsPerDay + h * SecondsPerHour + m * SecondsPerMinute + sec) :
        sign \in {1, 0 - 1}, d \in {0, 1, MaxFmtDays}, h \in {0, 1, 23},
        m \in {0, 1, 59}, sec \in {0, 1, 59}}

\* Math.abs
Abs(n) == IF n < 0 THEN 0 - n ELSE n

\* String(n).padStart(2, '0') for n below 100: the two digits of n
pad(n) == IF n < 10 THEN <<0, n>> ELSE <<n \div 10, n % 10>>

\* (variant) the breakdown is made on the number itself, not on Math.abs of it
formatTimeAloneNoAbs(raw) ==
    LET totalSeconds == raw
        negative == totalSeconds < 0
        days == totalSeconds \div SecondsPerDay
        afterDays == totalSeconds - days * SecondsPerDay
        hours == afterDays \div SecondsPerHour
        afterHours == afterDays - hours * SecondsPerHour
        minutes == afterHours \div SecondsPerMinute
        seconds == afterHours - minutes * SecondsPerMinute
    IN  [signStr |-> IF negative THEN "-" ELSE "", days |-> days,
         hours |-> pad(hours), minutes |-> pad(minutes), seconds |-> pad(seconds)]

\* formatTimeAlone(raw) for a number: the parts of
\* `${signStr}${days}d${pad(hours)}:${pad(minutes)}:${pad(seconds)}`
formatTimeAlone(raw) ==
    LET totalSeconds == raw
        negative == totalSeconds < 0
        abs == Abs(totalSeconds)
        days == abs \div SecondsPerDay
        afterDays == abs - days * SecondsPerDay
        hours == afterDays \div SecondsPerHour
        afterHours == afterDays - hours * SecondsPerHour
        minutes == afterHours \div SecondsPerMinute
        seconds == afterHours - minutes * SecondsPerMinute
    IN  [signStr |-> IF negative THEN "-" ELSE "", days |-> days,
         hours |-> pad(hours), minutes |-> pad(minutes), seconds |-> pad(seconds)]

FmtInit ==
    /\ Quiet
    /\ pin \in FmtInputs
    /\ pout = Null
    /\ mem = Null
    /\ mresp = Null
    /\ boot = [r \in Replicas |-> "ready"]
    /\ ui = Null

FmtCompute ==
    /\ pout = Null
    /\ pout' = formatTimeAlone(pin)
    /\ UNCHANGED <<store, cache, feed, hs, now, nreq, expSpikes, lastSet, fresh, pin, mem, mresp, boot, ui>>

FmtNext == FmtCompute

FmtSpec == FmtInit /\ [][FmtNext]_vars

-----------------------------------------------------------------------------
(* Properties *)

Done(h, kind) == hs[h].pc = "done" /\ hs[h].kind = kind

\* C1: the level of the persisted record is an integer between 0 and 100 in
\* every reachable state, whatever set requests (accepted or rejected),
\* resets and decay writes the replicas interleave.
C1_LevelInRange ==
    /\ store.level \in MinLevel..MaxLevel
    /\ \A r \in Replicas : cache[r].level \in MinLevel..MaxLevel

\* an out-of-range set has been rejected after its decay write was clamped at 0
C1_Witness ==
    \E h \in Handlers :
        /\ Done(h, "set") /\ hs[h].status = 400
        /\ hs[h].body.halves > 2 * MaxLevel
        /\ hs[h].applied = 1 /\ hs[h].rd.level = 0
        /\ store.level = 0

\* C2: a set answered with success, followed on the same replica by a read
\* with zero elapsed time and no other step in between, is read back: the
\* level of the GET response is the newLevel of the set response.
C2_SetThenGet ==
    \A h \in Handlers :
        (Done(h, "get") /\ hs[h].afterSet # None) =>
            (hs[h].status = 200 /\ hs[h].out.level = hs[h].afterSet)

\* C3: when a set request is answered, the store has applied exactly one
\* spike increment for it if it was accepted and none if it was rejected.
C3_SpikePerSet ==
    \A h \in Handlers :
        Done(h, "set") =>
            /\ hs[h].status = 200 => hs[h].incd = 1
            /\ hs[h].status = 400 => hs[h].incd = 0

\* C4: the write of a reset leaves the record with level 0 and 0 spikes right
\* after the store applies it; a reset request is never validated, issues no
\* decay write and is answered with newLevel 0.
C4_Reset ==
    [][\A h \in Handlers :
         /\ (hs[h].req.op = "reset" /\ hs[h].stage = "sent" /\ hs'[h].stage = "applied")
               => (store'.level = 0 /\ store'.boredomSpikes = 0)
         /\ hs'[h].kind = "reset" =>
               /\ hs'[h].req.op \in {"reset", "none"}
               /\ hs'[h].pc = "done" =>
                     (hs'[h].status = 200 /\ hs'[h].out.newLevel = 0)]_vars

\* the store has applied a reset to a record with level 5 and 3 spikes for
\* which decay was due
C4_Witness ==
    \E h \in Handlers :
        /\ hs[h].kind = "reset" /\ hs[h].stage = "applied"
        /\ cache[hs[h].rep].level = 5 /\ cache[hs[h].rep].boredomSpikes = 3
        /\ now - cache[hs[h].rep].lastUpdateTime >= DecayIntervalMs
        /\ store.level = 0 /\ store.boredomSpikes = 0

C6_RejectedUnchanged ==
    \A h \in Handlers :
        (Done(h, "set") /\ hs[h].status = 400) => hs[h].applied = 0

\* C7: a set or reset whose store write failed is answered with 500, never
\* with success.
C7_FailedWriteIs500 ==
    \A h \in Handlers :
        ((Done(h, "set") \/ Done(h, "reset")) /\ hs[h].failed) => hs[h].status = 500

\* C8: the decay computation yields decayUnits = floor(elapsed / interval),
\* that is decayUnits * interval <= elapsed < (decayUnits + 1) * interval,
\* and the new level max(0, level - decayUnits); level 50 after 3 intervals
\* and a remainder gives 47.
C8_Decay ==
    (pout # Null /\ pin.elapsed >= 0) =>
        LET d == pout.decayAmount
        IN  /\ d * DecayIntervalMs <= pin.elapsed
            /\ pin.elapsed < (d + 1) * DecayIntervalMs
            /\ pout.level >= 0
            /\ pout.level >= pin.level - d
            /\ pout.level = 0 \/ pout.level = pin.level - d
            /\ (pin.level = 50 /\ pin.elapsed = 3 * DecayIntervalMs + TickMs)
                  => pout.level = 47

\* level 50, three intervals and a remainder
C8_Witness ==
    /\ pout # Null
    /\ pin.level = 50 /\ pin.elapsed = 3 * DecayIntervalMs + TickMs
    /\ pout.decayAmount = 3 /\ pout.level = 47

\* C9: the level of a GET response is the decayed level of the state read at
\* the start of the request: max(0, L - floor((now - T) / interval)).
C9_GetReturnsDecayed ==
    \A h \in Handlers :
        (Done(h, "get") /\ hs[h].status = 200) =>
            LET e == hs[h].t0 - hs[h].rd.lastUpdateTime
                d == CHOOSE k \in 0..(MaxTicks + 1) :
                        k * DecayIntervalMs <= e /\ e < (k + 1) * DecayIntervalMs
            IN  hs[h].out.level = IF hs[h].rd.level >= d THEN hs[h].rd.level - d ELSE 0

\* C10: lastUpdateTime of the persisted record never decreases from one
\* applied write to the next.
C10_Monotone ==
    [][store'.lastUpdateTime >= store.lastUpdateTime]_vars

\* the store applies, in this step, the write of kind op that handler h issued
Applies(h, op) ==
    hs[h].req.op = op /\ hs[h].stage = "sent" /\ hs'[h].stage = "applied"

\* C11: every decay write the store applies only lowers the level of the
\* record, also when the cache it was computed from is stale.
C11_DecayOnlyLowers ==
    [][\A h \in Handlers : Applies(h, "decay") => store'.level <= store.level]_vars

\* C12: the level decay computes from a read state is never above the read
\* level and never negative.
C12_DecayMonotone ==
    pout # Null => (pout.level <= pin.level /\ pout.level >= 0)

\* level 2 after four intervals is clamped at 0
C12_Witness ==
    /\ pout # Null
    /\ pin.level = 2 /\ pout.decayAmount = 4 /\ pout.level = 0

\* C13: a set and its spike increment reach the record in one store step:
\* the step that applies a set write changes level, lastUpdateTime and
\* boredomSpikes together, the value it returns and the event it publishes to
\* every replica are that record, and the record changes in no other step.
C13_AtomicSet ==
    [][/\ \A h \in Handlers :
            Applies(h, "set") =>
               /\ store' = [level |-> hs[h].req.set.level,
                            lastUpdateTime |-> hs[h].req.set.lastUpdateTime,
                            boredomSpikes |-> store.boredomSpikes + 1]
               /\ hs'[h].result = store'
               /\ \A r \in Replicas : feed'[r] = Append(feed[r], Event(store'))
       /\ store' # store => \E h \in Handlers : hs[h].stage = "sent" /\ hs'[h].stage = "applied"
       /\ \A r \in Replicas :
            cache'[r] # cache[r] =>
               \/ feed[r] # <<>> /\ cache'[r] = Head(feed[r]).doc
               \/ \E h \in Handlers : hs[h].rep = r /\ cache'[r] = hs[h].result]_vars

\* the store has applied a set on a record with 3 spikes: level, time and the
\* fourth spike are in the record, in the returned value and in the events
C13_Witness ==
    \E h \in Handlers :
        /\ hs[h].req.op = "set" /\ hs[h].stage = "applied"
        /\ hs[h].result = store
        /\ store.level = hs[h].req.set.level /\ store.boredomSpikes = 4
        /\ cache[hs[h].rep].boredomSpikes = 3
        /\ \A r \in Replicas : feed[r] = <<Event(store)>>

\* C14: decay is persisted only when some time has passed since the last
\* persisted update of the record: when the decay write of one replica has
\* just been applied, the store applies no decay write of another replica
\* that carries the same (or an earlier) time.
C14_DecayThrottled ==
    [][\A h, g \in Handlers :
         (/\ Applies(h, "decay")
          /\ hs[g].req.op = "decay" /\ hs[g].stage = "applied"
          /\ hs[g].rep # hs[h].rep)
            => hs[h].req.set.lastUpdateTime > store.lastUpdateTime]_vars

\* C15: the only write a GET issues is a decay write; a decay write sets
\* level and lastUpdateTime and nothing else, and the step in which the store
\* applies it leaves the stored boredomSpikes as it was, so an increment a
\* set applied in the meantime is kept.
C15_DecayKeepsSpikes ==
    [][\A h \in Handlers :
         /\ (hs'[h].kind = "get" /\ hs'[h].req.op # "none") => hs'[h].req.op = "decay"
         /\ Applies(h, "decay") =>
               /\ DOMAIN hs[h].req.set = {"level", "lastUpdateTime"}
               /\ hs[h].req.inc = 0
               /\ store'.boredomSpikes = store.boredomSpikes
               /\ store'.boredomSpikes = expSpikes']_vars

\* a GET read 3 spikes, a set was applied while its decay write was on its
\* way, and the store still has the 4 spikes after the decay write
C15_Witness ==
    \E h, g \in Handlers :
        /\ hs[h].kind = "get" /\ hs[h].req.op = "decay" /\ hs[h].stage = "applied"
        /\ hs[h].rd.boredomSpikes = 3
        /\ hs[g].req.op = "set" /\ hs[g].stage = "applied"
        /\ hs[h].result = store /\ store.boredomSpikes = 4

\* the promise of the write of handler h is rejected in this step
Rejects(h) ==
    /\ hs[h].stage \in {"sent", "applied"}
    /\ \/ ~hs[h].failed /\ hs'[h].failed
       \/ ~hs[h].lost /\ hs'[h].lost

\* C16: the step in which a write fails (before or after the store applied
\* it) leaves the cache of every replica at its value before the write, so
\* the cache never takes the values of a write from the failure itself.
C16_FailedWriteKeepsCache ==
    [][\A h \in Handlers : Rejects(h) => cache' = cache]_vars

\* a set was answered after its write failed without reaching the store; the
\* cache of its replica still holds the stored record, not the level asked for
C16_Witness ==
    \E h \in Handlers :
        /\ Done(h, "set") /\ hs[h].failed /\ hs[h].applied = 0
        /\ cache[hs[h].rep] = store
        /\ cache[hs[h].rep].level # hs[h].out.newLevel

\* C17: when the change stream handler of a replica takes an event, the
\* cache of the replica becomes the document of the event if the event has a
\* full document with the id of the singleton, and stays as it was otherwise;
\* the cache of the other replica stays as it was.
C17_FeedFilter ==
    [][\A r \in Replicas :
         IF feed[r] # <<>> /\ feed'[r] = Tail(feed[r])
         THEN LET change == Head(feed[r])
              IN  cache'[r] = IF change.full /\ change.id = STATE_ID THEN change.doc
                              ELSE cache[r]
         ELSE cache'[r] = cache[r]]_vars

\* a replica has taken an event of the singleton and then an event of
\* another document and an event without a document: its cache holds the first
C17_Witness ==
    \E d \in FeedDocs, e \in FeedDocs :
        /\ pin["r1"] = <<Event(d), OtherDocument(e)>>
        /\ pin["r2"] = <<Event(d), NoFullDocument>>
        /\ d # e
        /\ feed = [r \in Replicas |-> <<>>]
        /\ cache = [r \in Replicas |-> d]

\* the promise of the write of handler h resolves in this step
Resolves(h) ==
    hs[h].stage = "applied" /\ hs'[h].stage # "applied" /\ ~Rejects(h)

\* C18: a state the cache already holds is applied a second time without
\* effect: the return value of a write whose event the replica has already
\* taken, and the event of a write whose return value the replica has
\* already taken, both leave the cache as it is (no spike is added).
C18_ApplyTwice ==
    [][\A r \in Replicas :
         /\ (feed[r] # <<>> /\ feed'[r] = Tail(feed[r]) /\ Head(feed[r]).doc = cache[r])
               => cache'[r] = cache[r]
         /\ \A h \in Handlers :
               (hs[h].rep = r /\ Resolves(h) /\ hs[h].result = cache[r])
                  => cache'[r] = cache[r]]_vars

\* the only request, a set, has been answered after its replica took the
\* event of the write and then the return value: 4 spikes, one more than 3
C18_Witness ==
    \E h \in Handlers :
        /\ nreq = 1 /\ Done(h, "set") /\ ~hs[h].failed /\ hs[h].applied = 1
        /\ feed[hs[h].rep] = <<>>
        /\ cache[hs[h].rep] = hs[h].result
        /\ hs[h].result = store /\ store.boredomSpikes = 4

\* C19: the timeAlone of every GET response is the number of whole seconds
\* between startTime and the time of the response, in the store-backed server
\* and in the in-memory servers, whatever requests were served before.
C19_TimeAlone ==
    /\ \A h \in Handlers :
          (Done(h, "get") /\ hs[h].status = 200) =>
             hs[h].out.timeAlone = (hs[h].out.serverTime - startTime) \div MsPerSecond
    /\ (mresp # Null /\ mresp.kind = "get") =>
          mresp.body.timeAlone = (mresp.at - startTime) \div MsPerSecond

\* C20: the lookup of a booting replica never writes the store; it loads an
\* existing record into the cache as it is, and prepares a record with level 0
\* and 0 spikes if there is none.  The insert that follows creates that record
\* if the store still has none and leaves the store as it is otherwise.
C20_BootCreatesIfAbsent ==
    [][\A r \in Replicas :
         /\ (boot[r] = "start" /\ boot'[r] # "start") =>
               /\ store' = store
               /\ IF store = Null
                  THEN boot'[r] = "insert" /\ cache'[r].level = 0 /\ cache'[r].boredomSpikes = 0
                  ELSE boot'[r] = "ready" /\ cache'[r] = store
         /\ (boot[r] = "insert" /\ boot'[r] # "insert") =>
               IF store = Null
               THEN store' # Null /\ store'.level = 0 /\ store'.boredomSpikes = 0
               ELSE store' = store]_vars

\* both replicas found no record; the first created it and served a set, the
\* insert of the second was refused and the record of the set is still there
C20_Witness ==
    /\ boot = [r \in Replicas |-> IF r = "r1" THEN "ready" ELSE "exited"]
    /\ store # Null
    /\ store.level = 2 /\ store.boredomSpikes = 1

\* C21: no replica ends its initialisation by terminating, and once every
\* replica is up and no request has been served yet, the store holds a record
\* and the cache of every replica has its level and its boredomSpikes.
C21_BootRaceHarmless ==
    /\ \A r \in Replicas : boot[r] # "exited"
    /\ (nreq = 0 /\ \A r \in Replicas : boot[r] = "ready") =>
          /\ store # Null
          /\ \A r \in Replicas :
                /\ cache[r].level = store.level
                /\ cache[r].boredomSpikes = store.boredomSpikes

\* C22: the auth check answers 400 when the username or the password is
\* missing (absent or empty), 200 with authenticated true when both are the
\* configured credentials and 401 otherwise, and the step that answers it
\* leaves the boredom state as it was.
C22_AuthCheck ==
    [][(mresp' # mresp /\ mresp'.kind = "auth") =>
         LET u == mresp'.username
             p == mresp'.password
             missing == ~u.present \/ ~p.present \/ u.text = "" \/ p.text = ""
             valid == u.text = VALID_USER /\ p.text = VALID_PASS
         IN  /\ mresp'.status = IF missing THEN 400 ELSE IF valid THEN 200 ELSE 401
             /\ mresp'.body.authenticated = (mresp'.status = 200)
             /\ mem' = mem /\ store' = store /\ cache' = cache]_vars

\* a request with the right username and a wrong password was answered 401
\* after a set, and the state is the one the set left
C22_Witness ==
    /\ mresp # Null /\ mresp.kind = "auth" /\ mresp.status = 401
    /\ mresp.username = Text(VALID_USER) /\ mresp.password = Text(VALID_USER)
    /\ mem.state.level = 2 /\ mem.state.boredomSpikes = 1

\* C23: for a clock reading before the lastUpdateTime of the state, the
\* decay computation writes nothing and the level and the lastUpdateTime are
\* those of the state.
C23_NegativeElapsed ==
    (pout # Null /\ pin.elapsed < 0) =>
        /\ ~pout.dirty
        /\ pout.level = pin.level
        /\ pout.lastUpdateTime = pin.lastUpdateTime

\* level 50 read with a clock one hour behind lastUpdateTime
C23_Witness ==
    /\ pout # Null
    /\ pin.level = 50 /\ pin.elapsed = 0 - DecayIntervalMs
    /\ pout.decayAmount = 0 - 1 /\ ~pout.dirty /\ pout.level = 50

\* C24: when the decay amount is positive the state is written with the
\* clock reading as lastUpdateTime, also when the level stays 0; when it is 0
\* nothing is written and the level and the lastUpdateTime stay.
C24_DecayAdvancesTime ==
    (pout # Null /\ pin.elapsed >= 0) =>
        LET units == pin.elapsed \div DecayIntervalMs
        IN  /\ units > 0 =>
                  /\ pout.dirty
                  /\ pout.lastUpdateTime = pin.lastUpdateTime + pin.elapsed
            /\ units = 0 =>
                  /\ ~pout.dirty
                  /\ pout.level = pin.level
                  /\ pout.lastUpdateTime = pin.lastUpdateTime

\* level 0 read after an hour and a half: written with the new time
C24_Witness ==
    /\ pout # Null
    /\ pin.level = 0 /\ pin.lastUpdateTime = TickMs /\ pin.elapsed = 3 * TickMs
    /\ pout.dirty /\ pout.level = 0 /\ pout.lastUpdateTime = 4 * TickMs

\* C25: a GET answered at time t after a set of v at time t0, with no set
\* or reset in between, has the level max(0, v - floor((t - t0) / interval)),
\* whatever reads were served in between (pin is the last accepted set).
C25_LevelAfterSet ==
    (mresp # Null /\ mresp.kind = "get" /\ pin # Null) =>
        mresp.body.level = Max(0, pin.v - ((mresp.at - pin.t0) \div DecayIntervalMs))

\* no write is on its way to the store, no return value and no event is
\* waiting to be delivered
Quiescent ==
    /\ \A h \in Handlers : hs[h].stage = "none"
    /\ \A r \in Replicas : feed[r] = <<>>

\* C26: once every write has been applied or has failed and every return
\* value and every event has been delivered, the cache of every replica is
\* the record of the store.
C26_CachesConverge ==
    Quiescent => \A r \in Replicas : cache[r] = store

\* C27: every request that reaches a handler finds the cache of its replica
\* initialised: no response is the 500 of 'State not initialized yet', and a
\* replica that has not finished initializeDatabase serves nothing.
C27_ServesAfterInit ==
    [][(mresp' # mresp) =>
          /\ mresp'.status = 200
          /\ mresp'.body # Null
          /\ boot[mresp'.rep] = "ready"]_vars

\* r1 created the record and answers a request while r2 is still between
\* its lookup and its insert
C27_Witness ==
    /\ mresp # Null /\ mresp.rep = "r1" /\ mresp.status = 200
    /\ mresp.body.level = 0
    /\ boot["r1"] = "ready" /\ boot["r2"] = "insert"

\* C28: the store-backed server with one replica and no store failure and
\* the in-memory server answer every request alike: the same status, and the
\* same level, lastUpdateTime and boredomSpikes in the response to a GET.
C28_SameResponses ==
    (pout # Null /\ mresp # Null) =>
        /\ pout.kind = mresp.kind /\ pout.status = mresp.status
        /\ pout.kind = "get" =>
              /\ pout.body.level = mresp.body.level
              /\ pout.body.lastUpdateTime = mresp.body.lastUpdateTime
              /\ pout.body.boredomSpikes = mresp.body.boredomSpikes

\* the last n elements of a sequence
Last(seq, n) == SubSeq(seq, Len(seq) - n + 1, Len(seq))

\* C29: the history buffer never holds more than 50 samples; a sample that
\* arrives is appended and, when that makes 51, the oldest is dropped, so the
\* buffer is the last 50 (or all, if fewer) of the samples that arrived since
\* it was last emptied, in the order of arrival.
C29_HistoryBounded ==
    ui # Null =>
        /\ Len(ui.historicalData) <= HistoryLimit
        /\ ui.historicalData =
              IF Len(ui.arrived) > HistoryLimit THEN Last(ui.arrived, HistoryLimit)
              ELSE ui.arrived

\* 52 samples have arrived: the buffer holds the samples 3 to 52
C29_Witness ==
    /\ ui # Null /\ ui.samples = 52 /\ ui.clears = 0
    /\ Len(ui.historicalData) = 50
    /\ Head(ui.historicalData) = 3 /\ ui.historicalData[50] = 52

\* the number two digits stand for
Digits(pair) == pair[1] * 10 + pair[2]

\* C30: for a whole number of seconds s the days, hours, minutes and seconds
\* of formatTimeAlone add up to |s|, with hours below 24 and minutes and
\* seconds below 60 and none negative, and the string starts with '-'
\* exactly when s is negative.
C30_FormatTimeAlone ==
    pout # Null =>
        LET h == Digits(pout.hours)
            m == Digits(pout.minutes)
            sec == Digits(pout.seconds)
        IN  /\ pout.days * SecondsPerDay + h * SecondsPerHour + m * SecondsPerMinute + sec
                  = (IF pin < 0 THEN 0 - pin ELSE pin)
            /\ pout.days >= 0 /\ h \in 0..23 /\ m \in 0..59 /\ sec \in 0..59
            /\ \A pair \in {pout.hours, pout.minutes, pout.seconds} :
                  Len(pair) = 2 /\ pair[1] \in 0..9 /\ pair[2] \in 0..9
            /\ (pout.signStr = "-") <=> (pin < 0)

\* -(10 days 23:59:01) is formatted as "-10d23:59:01"
C30_Witness ==
    /\ pout # Null
    /\ pin = 0 - (10 * SecondsPerDay + 23 * SecondsPerHour + 59 * SecondsPerMinute + 1)
    /\ pout = [signStr |-> "-", days |-> 10, hours |-> <<2, 3>>, minutes |-> <<5, 9>>,
               seconds |-> <<0, 1>>]

TypeOK ==
    /\ store.level \in Int
    /\ now \in Nat

====
